---- MODULE Spec2Model ----
(***************************************************************************)
(* Confidential transaction codec and signature-hash engine of             *)
(* ts_src/transaction.ts.  Byte strings are sequences of 0..255; an        *)
(* optional value (undefined | x) is a sequence of length 0 or 1.  An      *)
(* unsigned 32-bit integer is the record [hi, lo] of its top two bits      *)
(* (0..3) and its low 30 bits, so that bit 31, bit 30 and the 30-bit index *)
(* mask are exact: its value is hi * 2^30 + lo.                            *)
(***************************************************************************)
EXTENDS Integers, Sequences, FiniteSets, TLC

VARIABLES tx, buf, res

vars == <<tx, buf, res>>

\* ------------------------------------------------------------------ bounds
\* inputs and outputs of a transaction that is serialized and parsed
MaxIns == 1
MaxOuts == 1
\* inputs of a transaction that is queried
MaxQueryIns == 2
\* inputs and outputs of a transaction that is hashed for a signature
MaxSigIns == 2
MaxSigOuts == 2
MaxV1Ins == 1
MaxV1Outs == 1

\* --------------------------------------------------------------- constants
Rep(n, b) == [i \in 1..n |-> b]

EMPTY_BUFFER == <<>>
EMPTY_WITNESS == <<>>
ZERO == Rep(32, 0)
ONE == Rep(31, 0) \o <<1>>
U32(hi, lo) == [hi |-> hi, lo |-> lo]
\* a number below 2^30 as an unsigned 32-bit integer
Num(n) == U32(0, n)
OUTPOINT_INDEX_MASK == 1073741823
\* 1 << 31 and 1 << 30, as values of the top two bits
OUTPOINT_ISSUANCE_FLAG == 2
OUTPOINT_PEGIN_FLAG == 1
MINUS_1 == U32(3, OUTPOINT_INDEX_MASK)
VALUE_UINT64_MAX == Rep(8, 255)
DEFAULT_SEQUENCE == U32(3, OUTPOINT_INDEX_MASK)
SIGHASH_DEFAULT == 0
SIGHASH_ALL == 1
SIGHASH_NONE == 2
SIGHASH_SINGLE == 3
SIGHASH_ANYONECANPAY == 128
SIGHASH_OUTPUT_MASK == 3
SIGHASH_INPUT_MASK == 128
ADVANCED_TRANSACTION_FLAG == 1
OP_CODESEPARATOR == 171

\* BLANK_OUTPUT carries its eight 0xff bytes under the key valueBuffer; it has
\* no field named value.
BLANK_OUTPUT ==
  [script |-> EMPTY_BUFFER, asset |-> ZERO, nonce |-> ZERO,
   valueBuffer |-> VALUE_UINT64_MAX]

\* ------------------------------------------------------- integer helpers
\* u & flag # 0, for flag one of the two outpoint flag bits
HasBit(u, flag) == (u.hi \div flag) % 2 = 1

\* (u | flag) >>> 0
OrFlag(u, flag) == IF HasBit(u, flag) THEN u ELSE U32(u.hi + flag, u.lo)

\* u & OUTPOINT_INDEX_MASK
MaskIndex(u) == U32(0, u.lo)

\* little-endian bytes of n, 0 <= n < 2^31, in w bytes
LE(n, w) ==
  [i \in 1..w |->
     IF i = 1 THEN n % 256
     ELSE IF i = 2 THEN (n \div 256) % 256
     ELSE IF i = 3 THEN (n \div 65536) % 256
     ELSE IF i = 4 THEN (n \div 16777216) % 256
     ELSE 0]

RECURSIVE Flatten(_)
Flatten(ss) == IF ss = <<>> THEN <<>> ELSE Head(ss) \o Flatten(Tail(ss))

RECURSIVE SumSeq(_)
SumSeq(ns) == IF ns = <<>> THEN 0 ELSE Head(ns) + SumSeq(Tail(ns))

\* -------------------------------------------------- byte cursor (writer)
\* lengths here stay far below 2^31, so the 9-byte form never arises
encodingLength(n) == IF n < 253 THEN 1 ELSE IF n <= 65535 THEN 3 ELSE 5

writeVarInt(n) ==
  IF n < 253 THEN <<n>>
  ELSE IF n <= 65535 THEN <<253>> \o LE(n, 2)
  ELSE <<254>> \o LE(n, 4)

varSliceSize(b) == encodingLength(Len(b)) + Len(b)

writeVarSlice(b) == writeVarInt(Len(b)) \o b

writeVector(v) ==
  writeVarInt(Len(v)) \o Flatten([i \in 1..Len(v) |-> writeVarSlice(v[i])])

writeUInt32(u) ==
  <<u.lo % 256, (u.lo \div 256) % 256, (u.lo \div 65536) % 256,
    (u.lo \div 16777216) + 64 * u.hi>>

\* a signed 32-bit integer in two's complement
writeInt32(v) ==
  IF v >= 0 THEN LE(v, 4)
  ELSE LET m == (v + 1073741824) + 1073741824 IN
       <<m % 256, (m \div 256) % 256, (m \div 65536) % 256, (m \div 16777216) + 128>>

writeUInt64Zero == Rep(8, 0)

writeConfidentialInFields(input) ==
  writeVarSlice(input.issuanceRangeProof) \o writeVarSlice(input.inflationRangeProof)
    \o writeVector(input.witness) \o writeVector(input.peginWitness)

writeConfidentialOutFields(output) ==
  writeVarSlice(output.surjectionProof) \o writeVarSlice(output.rangeProof)

\* ------------------------------------------------------ Transaction model
\* new Transaction(): the field initialisers
NewTransaction ==
  [version |-> 1, locktime |-> Num(0), flag |-> 0, ins |-> <<>>, outs |-> <<>>]

\* a faulty variant: only the first byte is looked at
isCoinbaseHashFirstByte(buffer) == buffer[1] = 0

isCoinbaseHash(buffer) == \A i \in 1..32 : buffer[i] = 0

isCoinbase(t) == Len(t.ins) = 1 /\ isCoinbaseHash(t.ins[1].hash)

validateIssuance(iss) ==
  /\ Len(iss.assetBlindingNonce) = 32
  /\ Len(iss.assetEntropy) = 32
  /\ Len(iss.assetAmount) \in {1, 9, 33}
  /\ Len(iss.tokenAmount) \in {1, 9, 33}

\* a faulty variant: the issuance bit without an issuance object is let through
addInputUnchecked(t, hash, index, sequence, scriptSig, issuance) ==
  LET flagged == index # MINUS_1
      txIn == [hash |-> hash,
               index |-> IF flagged THEN MaskIndex(index) ELSE index,
               isPegin |-> flagged /\ HasBit(index, OUTPOINT_PEGIN_FLAG),
               issuance |-> issuance,
               script |-> IF scriptSig = <<>> THEN EMPTY_BUFFER ELSE scriptSig[1],
               witness |-> EMPTY_WITNESS,
               peginWitness |-> EMPTY_WITNESS,
               issuanceRangeProof |-> EMPTY_BUFFER,
               inflationRangeProof |-> EMPTY_BUFFER,
               sequence |-> IF sequence = <<>> \/ sequence[1] = Num(0)
                            THEN DEFAULT_SEQUENCE ELSE sequence[1]]
  IN [threw |-> FALSE,
      tx |-> [t EXCEPT !.ins = Append(t.ins, txIn)],
      ret |-> Len(t.ins)]

\* addInput(hash, index, sequence?, scriptSig?, issuance?): the transaction
\* after the call, whether it threw, and the returned position
addInput(t, hash, index, sequence, scriptSig, issuance) ==
  LET flagged == index # MINUS_1
      threw == /\ flagged
               /\ HasBit(index, OUTPOINT_ISSUANCE_FLAG)
               /\ \/ issuance = <<>>
                  \/ ~validateIssuance(issuance[1])
      isPegin == flagged /\ HasBit(index, OUTPOINT_PEGIN_FLAG)
      idx == IF flagged THEN MaskIndex(index) ELSE index
      txIn == [hash |-> hash,
               index |-> idx,
               isPegin |-> isPegin,
               issuance |-> issuance,
               script |-> IF scriptSig = <<>> \/ scriptSig[1] = <<>>
                          THEN EMPTY_BUFFER ELSE scriptSig[1],
               witness |-> EMPTY_WITNESS,
               peginWitness |-> EMPTY_WITNESS,
               issuanceRangeProof |-> EMPTY_BUFFER,
               inflationRangeProof |-> EMPTY_BUFFER,
               sequence |-> IF sequence = <<>> \/ sequence[1] = Num(0)
                            THEN DEFAULT_SEQUENCE ELSE sequence[1]]
  IN IF threw
     THEN [threw |-> TRUE, tx |-> t, ret |-> 0]
     ELSE [threw |-> FALSE,
           tx |-> [t EXCEPT !.ins = Append(t.ins, txIn)],
           ret |-> Len(t.ins)]

addOutput(t, scriptPubKey, value, asset, nonce, rangeProof, surjectionProof) ==
  LET txOut == [script |-> scriptPubKey,
                value |-> value,
                asset |-> asset,
                nonce |-> nonce,
                rangeProof |-> IF rangeProof = <<>> THEN EMPTY_BUFFER
                               ELSE rangeProof[1],
                surjectionProof |-> IF surjectionProof = <<>> THEN EMPTY_BUFFER
                                    ELSE surjectionProof[1]]
  IN [tx |-> [t EXCEPT !.outs = Append(t.outs, txOut)], ret |-> Len(t.outs)]

\* a faulty variant: an output counts with either proof
hasWitnessesEitherProof(t) ==
  \/ t.flag = 1
  \/ \E i \in 1..Len(t.ins) : Len(t.ins[i].witness) # 0
  \/ \E i \in 1..Len(t.outs) :
       Len(t.outs[i].rangeProof) # 0 \/ Len(t.outs[i].surjectionProof) # 0

hasWitnesses(t) ==
  \/ t.flag = 1
  \/ \E i \in 1..Len(t.ins) : Len(t.ins[i].witness) # 0
  \/ \E i \in 1..Len(t.outs) :
       Len(t.outs[i].rangeProof) # 0 /\ Len(t.outs[i].surjectionProof) # 0

\* a faulty variant: the copy leaves the input witnesses behind
cloneWithoutWitness(t) ==
  [t EXCEPT !.ins = [i \in 1..Len(t.ins) |-> [t.ins[i] EXCEPT !.witness = <<>>]]]

clone(t) ==
  [version |-> t.version,
   locktime |-> t.locktime,
   flag |-> t.flag,
   ins |-> [i \in 1..Len(t.ins) |->
              [hash |-> t.ins[i].hash,
               index |-> t.ins[i].index,
               script |-> t.ins[i].script,
               sequence |-> t.ins[i].sequence,
               witness |-> t.ins[i].witness,
               isPegin |-> t.ins[i].isPegin,
               issuance |-> t.ins[i].issuance,
               peginWitness |-> t.ins[i].peginWitness,
               issuanceRangeProof |-> t.ins[i].issuanceRangeProof,
               inflationRangeProof |-> t.ins[i].inflationRangeProof]],
   outs |-> [i \in 1..Len(t.outs) |->
               [script |-> t.outs[i].script,
                value |-> t.outs[i].value,
                asset |-> t.outs[i].asset,
                nonce |-> t.outs[i].nonce,
                rangeProof |-> t.outs[i].rangeProof,
                surjectionProof |-> t.outs[i].surjectionProof]]]

\* ---------------------------------------------------- size and serialization
\* reading txOut.value.length of an output without a value field throws
OutHasValue(txOut) == "value" \in DOMAIN txOut

TxInSize(txIn) ==
  40 + varSliceSize(txIn.script)
     + (IF txIn.issuance # <<>>
        THEN 64 + Len(txIn.issuance[1].assetAmount) + Len(txIn.issuance[1].tokenAmount)
        ELSE 0)

TxOutSize(txOut) ==
  Len(txOut.asset) + Len(txOut.value) + Len(txOut.nonce) + varSliceSize(txOut.script)

TxInWitnessSize(txIn) ==
  varSliceSize(txIn.issuanceRangeProof) + varSliceSize(txIn.inflationRangeProof)
    + encodingLength(Len(txIn.witness))
    + SumSeq([i \in 1..Len(txIn.witness) |-> varSliceSize(txIn.witness[i])])
    + encodingLength(Len(txIn.peginWitness))
    + SumSeq([i \in 1..Len(txIn.peginWitness) |-> varSliceSize(txIn.peginWitness[i])])

TxOutWitnessSize(txOut) ==
  varSliceSize(txOut.surjectionProof) + varSliceSize(txOut.rangeProof)

\* __byteLength(_ALLOW_WITNESS, forSignature)
__byteLength(t, allowWitness, forSignature) ==
  IF \E i \in 1..Len(t.outs) : ~OutHasValue(t.outs[i])
  THEN [threw |-> TRUE, size |-> 0]
  ELSE [threw |-> FALSE,
        size |->
          8 + (IF forSignature THEN 0 ELSE 1)
            + encodingLength(Len(t.ins)) + encodingLength(Len(t.outs))
            + SumSeq([i \in 1..Len(t.ins) |-> TxInSize(t.ins[i])])
            + SumSeq([i \in 1..Len(t.outs) |-> TxOutSize(t.outs[i])])
            + (IF allowWitness /\ hasWitnesses(t)
               THEN SumSeq([i \in 1..Len(t.ins) |-> TxInWitnessSize(t.ins[i])])
                    + SumSeq([i \in 1..Len(t.outs) |-> TxOutWitnessSize(t.outs[i])])
               ELSE 0)]

\* byteLength(_ALLOW_WITNESS?): the argument passes through `|| true`
byteLength(t, allowWitness) ==
  __byteLength(t, (allowWitness # <<>> /\ allowWitness[1]) \/ TRUE, FALSE)

writeIssuance(iss) ==
  iss.assetBlindingNonce \o iss.assetEntropy \o iss.assetAmount \o iss.tokenAmount

\* a faulty variant: the issuance bit is never set
PrevIndexNoIssuanceBit(txIn) ==
  IF txIn.isPegin THEN OrFlag(txIn.index, OUTPOINT_PEGIN_FLAG) ELSE txIn.index

\* the outpoint index as written: flag bits folded into the top two bits
PrevIndex(txIn) ==
  LET a == IF txIn.issuance # <<>>
           THEN OrFlag(txIn.index, OUTPOINT_ISSUANCE_FLAG) ELSE txIn.index
  IN IF txIn.isPegin THEN OrFlag(a, OUTPOINT_PEGIN_FLAG) ELSE a

WriteTxIn(txIn) ==
  txIn.hash \o writeUInt32(PrevIndex(txIn)) \o writeVarSlice(txIn.script)
    \o writeUInt32(txIn.sequence)
    \o (IF txIn.issuance # <<>> THEN writeIssuance(txIn.issuance[1]) ELSE <<>>)

\* a faulty variant: the nonce is written before the value
WriteTxOutNonceFirst(txOut, zeroValue) ==
  txOut.asset \o txOut.nonce \o (IF zeroValue THEN <<0>> ELSE txOut.value)
    \o (IF zeroValue THEN writeUInt64Zero ELSE <<>>) \o writeVarSlice(txOut.script)

WriteTxOut(txOut, zeroValue) ==
  txOut.asset \o (IF zeroValue THEN <<0>> ELSE txOut.value) \o txOut.nonce
    \o (IF zeroValue THEN writeUInt64Zero ELSE <<>>) \o writeVarSlice(txOut.script)

\* a faulty variant: the flag byte is always 0
WriteFlagsZero(hasW, forceZeroFlag, forSignature) ==
  IF forSignature THEN <<>> ELSE <<0>>

\* the flag byte __toBuffer writes (none when forSignature)
WriteFlags(hasW, forceZeroFlag, forSignature) ==
  IF forSignature THEN <<>>
  ELSE <<IF hasW /\ ~forceZeroFlag THEN ADVANCED_TRANSACTION_FLAG ELSE 0>>

\* whether __toBuffer appends the witness and proof groups
WritesSuffix(hasW, forceZeroFlag, forSignature) == ~forSignature /\ hasW

\* the bytes __toBuffer writes through its BufferWriter, in order
Written(t, allowWitness, forceZeroFlag, forSignature) ==
  LET hasW == allowWitness /\ hasWitnesses(t) IN
  writeInt32(t.version)
    \o WriteFlags(hasW, forceZeroFlag, forSignature)
    \o writeVarInt(Len(t.ins))
    \o Flatten([i \in 1..Len(t.ins) |-> WriteTxIn(t.ins[i])])
    \o writeVarInt(Len(t.outs))
    \o Flatten([i \in 1..Len(t.outs) |-> WriteTxOut(t.outs[i], forSignature /\ hasW)])
    \o writeUInt32(t.locktime)
    \o (IF WritesSuffix(hasW, forceZeroFlag, forSignature)
        THEN Flatten([i \in 1..Len(t.ins) |-> writeConfidentialInFields(t.ins[i])])
             \o Flatten([i \in 1..Len(t.outs) |-> writeConfidentialOutFields(t.outs[i])])
        ELSE <<>>)

\* what Buffer.allocUnsafe may leave in a byte that is never written
Fills == {0, 255}

\* The outcomes of writing `bytes` at offset 0 into a Buffer.allocUnsafe(size):
\* a write past the end throws; bytes never written keep whatever the
\* allocator left there.
IntoBuffer(size, bytes) ==
  IF Len(bytes) > size THEN {[threw |-> TRUE, bytes |-> <<>>]}
  ELSE IF Len(bytes) = size THEN {[threw |-> FALSE, bytes |-> bytes]}
  ELSE {[threw |-> FALSE, bytes |-> bytes \o Rep(size - Len(bytes), fill)] :
          fill \in Fills}

\* __toBuffer(undefined, undefined, _ALLOW_WITNESS, forceZeroFlag, forSignature):
\* the set of its possible outcomes
__toBuffer(t, allowWitness, forceZeroFlag, forSignature) ==
  LET n == __byteLength(t, allowWitness, forSignature) IN
  IF n.threw THEN {[threw |-> TRUE, bytes |-> <<>>]}
  ELSE IntoBuffer(n.size, Written(t, allowWitness, forceZeroFlag, forSignature))

toBuffer(t) == __toBuffer(t, TRUE, FALSE, FALSE)

\* -------------------------------------------------- byte cursor (reader)
\* The reader works on the buffer extended by zeroes and never stops early; a
\* read past the end throws in the program, and since the offset only grows,
\* some read ran past the end exactly when the final offset exceeds the length.
At(b, i) == IF i <= Len(b) THEN b[i] ELSE 0

readSlice(b, off, n) == [i \in 1..n |-> At(b, off + i)]

readUInt8(b, off) == At(b, off + 1)

readUInt32(b, off) ==
  U32(At(b, off + 4) \div 64,
      At(b, off + 1) + 256 * At(b, off + 2) + 65536 * At(b, off + 3)
        + 16777216 * (At(b, off + 4) % 64))

readInt32(b, off) ==
  LET low == At(b, off + 1) + 256 * At(b, off + 2) + 65536 * At(b, off + 3)
               + 16777216 * (At(b, off + 4) % 128)
  IN IF At(b, off + 4) >= 128 THEN (low - 1073741824) - 1073741824 ELSE low

\* compact-size; any encoding is accepted, minimal or not.  A value of 2^16 or
\* more is more than any buffer here holds and is reported as 2^16.
readVarInt(b, off) ==
  LET first == At(b, off + 1)
      wide(w) == IF \E i \in 3..w : At(b, off + 1 + i) # 0 THEN 65535 + 1
                 ELSE At(b, off + 2) + 256 * At(b, off + 3)
  IN IF first < 253 THEN [val |-> first, off |-> off + 1]
     ELSE IF first = 253
     THEN [val |-> At(b, off + 2) + 256 * At(b, off + 3), off |-> off + 3]
     ELSE IF first = 254 THEN [val |-> wide(4), off |-> off + 5]
     ELSE [val |-> wide(8), off |-> off + 9]

readVarSlice(b, off) ==
  LET slice(n) ==
        [val |-> IF n.off + n.val > Len(b) THEN <<>> ELSE readSlice(b, n.off, n.val),
         off |-> n.off + n.val]
  IN slice(readVarInt(b, off))

RECURSIVE readVarSlices(_, _, _)
readVarSlices(b, off, n) ==
  LET cons(s, rest) == [val |-> <<s.val>> \o rest.val, off |-> rest.off]
      after(s) == cons(s, readVarSlices(b, s.off, n - 1))
  IN IF n = 0 \/ off > Len(b) THEN [val |-> <<>>, off |-> off]
     ELSE after(readVarSlice(b, off))

readVector(b, off) ==
  LET slices(n) == readVarSlices(b, n.off, n.val) IN slices(readVarInt(b, off))

readConfidentialAsset(b, off) == [val |-> readSlice(b, off, 33), off |-> off + 33]

readConfidentialValue(b, off) ==
  LET field(n) == [val |-> readSlice(b, off, n), off |-> off + n]
  IN field(IF At(b, off + 1) = 1 THEN 9 ELSE IF At(b, off + 1) = 0 THEN 1 ELSE 33)

readConfidentialNonce(b, off) ==
  LET field(n) == [val |-> readSlice(b, off, n), off |-> off + n]
  IN field(IF At(b, off + 1) = 0 THEN 1 ELSE 33)

readIssuance(b, off) ==
  LET issuance(amount, token) ==
        [val |-> [assetBlindingNonce |-> readSlice(b, off, 32),
                  assetEntropy |-> readSlice(b, off + 32, 32),
                  assetAmount |-> amount.val,
                  tokenAmount |-> token.val],
         off |-> token.off]
      after(amount) == issuance(amount, readConfidentialValue(b, amount.off))
  IN after(readConfidentialValue(b, off + 64))

readConfidentialInFields(b, off) ==
  LET fields(irp, inf, wit, peg) ==
        [val |-> [witness |-> wit.val, peginWitness |-> peg.val,
                  issuanceRangeProof |-> irp.val, inflationRangeProof |-> inf.val],
         off |-> peg.off]
      afterWit(irp, inf, wit) == fields(irp, inf, wit, readVector(b, wit.off))
      afterInf(irp, inf) == afterWit(irp, inf, readVector(b, inf.off))
      afterIrp(irp) == afterInf(irp, readVarSlice(b, irp.off))
  IN afterIrp(readVarSlice(b, off))

readConfidentialOutFields(b, off) ==
  LET fields(sp, rp) ==
        [val |-> [rangeProof |-> rp.val, surjectionProof |-> sp.val], off |-> rp.off]
      afterSp(sp) == fields(sp, readVarSlice(b, sp.off))
  IN afterSp(readVarSlice(b, off))

\* ------------------------------------------------------------ fromBuffer
\* one pass of the input loop
ReadTxIn(b, off) ==
  LET txIn(raw, script, flagged, hasIssuance, iss) ==
        [val |-> [hash |-> readSlice(b, off, 32),
                  index |-> IF flagged THEN MaskIndex(raw) ELSE raw,
                  script |-> script.val,
                  sequence |-> readUInt32(b, script.off),
                  witness |-> EMPTY_WITNESS,
                  isPegin |-> flagged /\ HasBit(raw, OUTPOINT_PEGIN_FLAG),
                  issuance |-> IF hasIssuance THEN <<iss.val>> ELSE <<>>,
                  peginWitness |-> EMPTY_WITNESS,
                  issuanceRangeProof |-> EMPTY_BUFFER,
                  inflationRangeProof |-> EMPTY_BUFFER],
         off |-> IF hasIssuance THEN iss.off ELSE script.off + 4]
      afterSequence(raw, script) ==
        txIn(raw, script, raw # MINUS_1,
             raw # MINUS_1 /\ HasBit(raw, OUTPOINT_ISSUANCE_FLAG),
             readIssuance(b, script.off + 4))
  IN afterSequence(readUInt32(b, off + 32), readVarSlice(b, off + 36))

\* one pass of the output loop
ReadTxOut(b, off) ==
  LET txOut(asset, value, nonce, script) ==
        [val |-> [asset |-> asset.val, value |-> value.val, nonce |-> nonce.val,
                  script |-> script.val,
                  rangeProof |-> EMPTY_BUFFER, surjectionProof |-> EMPTY_BUFFER],
         off |-> script.off]
      afterNonce(asset, value, nonce) ==
        txOut(asset, value, nonce, readVarSlice(b, nonce.off))
      afterValue(asset, value) ==
        afterNonce(asset, value, readConfidentialNonce(b, value.off))
      afterAsset(asset) == afterValue(asset, readConfidentialValue(b, asset.off))
  IN afterAsset(readConfidentialAsset(b, off))

\* n passes of a loop whose body is Read (1: inputs, 2: outputs, 3: input
\* witness fields, 4: output proof fields)
RECURSIVE ReadLoop(_, _, _, _)
ReadLoop(kind, b, off, n) ==
  LET cons(one, rest) == [val |-> <<one.val>> \o rest.val, off |-> rest.off]
      after(one) == cons(one, ReadLoop(kind, b, one.off, n - 1))
  IN IF n = 0 \/ off > Len(b) THEN [val |-> <<>>, off |-> off]
     ELSE after(IF kind = 1 THEN ReadTxIn(b, off)
                ELSE IF kind = 2 THEN ReadTxOut(b, off)
                ELSE IF kind = 3 THEN readConfidentialInFields(b, off)
                ELSE readConfidentialOutFields(b, off))

\* the input loop and the output loop, each after its count
ReadIns(b) ==
  LET loop(vinLen) == ReadLoop(1, b, vinLen.off, vinLen.val)
  IN loop(readVarInt(b, 5))

ReadOuts(b, off) ==
  LET loop(voutLen) == ReadLoop(2, b, voutLen.off, voutLen.val)
  IN loop(readVarInt(b, off))

\* if (hasWitnesses): one group per input (kind 3) or per output (kind 4)
ReadSuffix(kind, b, off, n) ==
  IF readUInt8(b, 4) % 2 = ADVANCED_TRANSACTION_FLAG
  THEN ReadLoop(kind, b, off, n)
  ELSE [val |-> <<>>, off |-> off]

\* a faulty variant: the strictness check is left out
ParsedLenient(b, noStrict, ins, outs, inW, outW) ==
  IF outW.off > Len(b)
  THEN [threw |-> TRUE, tx |-> NewTransaction]
  ELSE [threw |-> FALSE,
        tx |-> [version |-> readInt32(b, 0),
                locktime |-> readUInt32(b, outs.off),
                flag |-> readUInt8(b, 4),
                ins |-> [i \in 1..Len(ins.val) |->
                           IF readUInt8(b, 4) % 2 = ADVANCED_TRANSACTION_FLAG
                           THEN [ins.val[i] EXCEPT
                                   !.witness = inW.val[i].witness,
                                   !.peginWitness = inW.val[i].peginWitness,
                                   !.issuanceRangeProof = inW.val[i].issuanceRangeProof,
                                   !.inflationRangeProof = inW.val[i].inflationRangeProof]
                           ELSE ins.val[i]],
                outs |-> [i \in 1..Len(outs.val) |->
                            IF readUInt8(b, 4) % 2 = ADVANCED_TRANSACTION_FLAG
                            THEN [outs.val[i] EXCEPT
                                    !.rangeProof = outW.val[i].rangeProof,
                                    !.surjectionProof = outW.val[i].surjectionProof]
                            ELSE outs.val[i]]]]

\* the end of fromBuffer: the strictness check and the transaction read, given
\* what the four loops returned
Parsed(b, noStrict, ins, outs, inW, outW) ==
  IF outW.off > Len(b) \/ (~noStrict /\ outW.off # Len(b))
  THEN [threw |-> TRUE, tx |-> NewTransaction]
  ELSE [threw |-> FALSE,
        tx |-> [version |-> readInt32(b, 0),
                locktime |-> readUInt32(b, outs.off),
                flag |-> readUInt8(b, 4),
                ins |-> [i \in 1..Len(ins.val) |->
                           IF readUInt8(b, 4) % 2 = ADVANCED_TRANSACTION_FLAG
                           THEN [ins.val[i] EXCEPT
                                   !.witness = inW.val[i].witness,
                                   !.peginWitness = inW.val[i].peginWitness,
                                   !.issuanceRangeProof = inW.val[i].issuanceRangeProof,
                                   !.inflationRangeProof = inW.val[i].inflationRangeProof]
                           ELSE ins.val[i]],
                outs |-> [i \in 1..Len(outs.val) |->
                            IF readUInt8(b, 4) % 2 = ADVANCED_TRANSACTION_FLAG
                            THEN [outs.val[i] EXCEPT
                                    !.rangeProof = outW.val[i].rangeProof,
                                    !.surjectionProof = outW.val[i].surjectionProof]
                            ELSE outs.val[i]]]]

AfterInW(b, noStrict, ins, outs, inW) ==
  Parsed(b, noStrict, ins, outs, inW, ReadSuffix(4, b, inW.off, Len(outs.val)))

AfterOuts(b, noStrict, ins, outs) ==
  AfterInW(b, noStrict, ins, outs, ReadSuffix(3, b, outs.off + 4, Len(ins.val)))

AfterIns(b, noStrict, ins) == AfterOuts(b, noStrict, ins, ReadOuts(b, ins.off))

\* fromBuffer(buffer, _NO_STRICT): whether it threw, and the transaction
fromBuffer(buffer, noStrict) == AfterIns(buffer, noStrict, ReadIns(buffer))

\* Buffer.from(hex, 'hex') for a string of hex digits, each digit given by its
\* value: two digits make a byte, a last digit without a pair is dropped
HexDecode(hex) == [i \in 1..(Len(hex) \div 2) |-> 16 * hex[2 * i - 1] + hex[2 * i]]

\* fromHex(hex)
fromHex(hex) == fromBuffer(HexDecode(hex), FALSE)

\* ------------------------------------------------------------- digests
\* hash256 is kept symbolic: a digest is the pair of the function applied and
\* its preimage, and the two constants ONE and ZERO-filled are kind "const".
Const(bytes) == [threw |-> FALSE, kind |-> "const", bytes |-> bytes]
Hash256(bytes) == [threw |-> FALSE, kind |-> "hash256", bytes |-> bytes]
Threw == [threw |-> TRUE, kind |-> "", bytes |-> <<>>]

Truthy(opt) == opt # <<>> /\ opt[1]

\* getHash(forWitness?): the set of its possible outcomes
getHash(t, forWitness) ==
  IF Truthy(forWitness) /\ isCoinbase(t) THEN {Const(Rep(32, 0))}
  ELSE {IF b.threw THEN Threw ELSE Hash256(b.bytes) :
          b \in __toBuffer(t, Truthy(forWitness), TRUE, FALSE)}

\* a faulty variant: the copy holds the input objects of this
cloneSharesInputs == {"txIn"}

\* What the transaction returned by clone() shares with this, of "ins" and
\* "outs" (the two arrays) and "txIn" and "txOut" (their elements): map() makes
\* new arrays and each object literal a new element.  The buffers inside are
\* shared and never written to.
cloneShares == {}

\* bscript.compile(bscript.decompile(script).filter(x => x !== OP_CODESEPARATOR)),
\* for scripts made of one-byte opcodes
RemoveCodeSeparators(script) ==
  LET keep(x) == x # OP_CODESEPARATOR IN SelectSeq(script, keep)

\* the copy hashForSignature serializes, after the hashType's changes
SignatureTx(t, inIndex, prevOutScript, hashType) ==
  LET ourScript == RemoveCodeSeparators(prevOutScript)
      txTmp == clone(t)
      mode == hashType % 32
      blankSeq(ins) == [i \in 1..Len(ins) |->
                          IF i = inIndex + 1 THEN ins[i]
                          ELSE [ins[i] EXCEPT !.sequence = Num(0)]]
      t1 == IF mode = SIGHASH_NONE
            THEN [txTmp EXCEPT !.outs = <<>>, !.ins = blankSeq(txTmp.ins)]
            ELSE IF mode = SIGHASH_SINGLE
            THEN [txTmp EXCEPT
                    !.outs = [i \in 1..(inIndex + 1) |->
                                IF i <= inIndex THEN BLANK_OUTPUT ELSE txTmp.outs[i]],
                    !.ins = blankSeq(txTmp.ins)]
            ELSE txTmp
  IN IF (hashType \div SIGHASH_ANYONECANPAY) % 2 = 1
     THEN [t1 EXCEPT !.ins = <<[t1.ins[inIndex + 1] EXCEPT !.script = ourScript]>>]
     ELSE [t1 EXCEPT !.ins = [i \in 1..Len(t1.ins) |->
                                [t1.ins[i] EXCEPT
                                   !.script = IF i = inIndex + 1 THEN ourScript
                                              ELSE EMPTY_BUFFER]]]

\* this after hashForSignature, whether it returned or threw: the assignments
\* made through the copy (input.sequence = 0, input.script = ..., outs.length =
\* inIndex + 1, outs[i] = BLANK_OUTPUT) reach this where the copy shares the
\* object assigned to; txTmp.outs = [] and txTmp.ins = [...] rebind the copy's
\* own properties.
ThisAfterSignature(t, inIndex, prevOutScript, hashType) ==
  LET mode == hashType % 32
      ourScript == RemoveCodeSeparators(prevOutScript)
      sequenced(i) == IF mode \in {SIGHASH_NONE, SIGHASH_SINGLE} /\ i # inIndex + 1
                      THEN [t.ins[i] EXCEPT !.sequence = Num(0)] ELSE t.ins[i]
      scripted(i) == IF (hashType \div SIGHASH_ANYONECANPAY) % 2 = 1
                     THEN IF i = inIndex + 1
                          THEN [sequenced(i) EXCEPT !.script = ourScript]
                          ELSE sequenced(i)
                     ELSE [sequenced(i) EXCEPT
                             !.script = IF i = inIndex + 1 THEN ourScript
                                        ELSE EMPTY_BUFFER]
  IN IF inIndex >= Len(t.ins) THEN t
     ELSE IF mode = SIGHASH_SINGLE /\ inIndex >= Len(t.outs) THEN t
     ELSE [t EXCEPT
             !.ins = IF "txIn" \in cloneShares
                     THEN [i \in 1..Len(t.ins) |-> scripted(i)] ELSE t.ins,
             !.outs = IF "outs" \in cloneShares /\ mode = SIGHASH_SINGLE
                      THEN [i \in 1..(inIndex + 1) |->
                              IF i <= inIndex THEN BLANK_OUTPUT ELSE t.outs[i]]
                      ELSE t.outs]

\* hashForSignature(inIndex, prevOutScript, hashType): the set of its possible
\* outcomes.  The buffer has __byteLength(false, true) + 4 bytes, hashType is
\* written into its last four, the copy is then written from offset 0.
hashForSignature(t, inIndex, prevOutScript, hashType) ==
  IF inIndex >= Len(t.ins) THEN {Const(ONE)}
  ELSE IF hashType % 32 = SIGHASH_SINGLE /\ inIndex >= Len(t.outs) THEN {Const(ONE)}
  ELSE LET txTmp == SignatureTx(t, inIndex, prevOutScript, hashType)
           n == __byteLength(txTmp, FALSE, TRUE)
           w == Written(txTmp, FALSE, TRUE, TRUE)
           tail == writeInt32(hashType)
       IN IF n.threw \/ Len(w) > n.size + 4 THEN {Threw}
          ELSE IF Len(w) = n.size THEN {Hash256(w \o tail)}
          ELSE {Hash256([i \in 1..(n.size + 4) |->
                           IF i <= Len(w) THEN w[i]
                           ELSE IF i > n.size THEN tail[i - n.size]
                           ELSE fill]) : fill \in Fills}

\* ------------------------------------------------- taproot signature hash
\* A slice handed to the message writer: the bytes themselves, or the 32-byte
\* sha256 of bytes.
Slice(bytes) == [sha |-> FALSE, bytes |-> bytes]

Sha256(bytes) == [sha |-> TRUE, bytes |-> bytes]

SliceLength(s) == IF s.sha THEN 32 ELSE Len(s.bytes)

\* the bytes a writer made withCapacity holds after the slices were appended
WrittenLength(slices) == SumSeq([i \in 1..Len(slices) |-> SliceLength(slices[i])])

TaggedHash(tag, slices) ==
  [threw |-> FALSE, kind |-> "taggedHash", tag |-> tag, bytes |-> slices]

\* an exception with its message or class
Error(kind) == [threw |-> TRUE, kind |-> kind, tag |-> "", bytes |-> <<>>]

getOutputWitnessesSHA256(outs) ==
  Sha256(Flatten([i \in 1..Len(outs) |->
                    writeVarSlice(outs[i].surjectionProof)
                      \o writeVarSlice(outs[i].rangeProof)]))

getIssuanceProofsSHA256(ins) ==
  Sha256(Flatten([i \in 1..Len(ins) |->
                    writeVarSlice(ins[i].issuanceRangeProof)
                      \o writeVarSlice(ins[i].inflationRangeProof)]))

getSpentAssetsAmountsSHA256(outs) ==
  Sha256(Flatten([i \in 1..Len(outs) |-> outs[i].asset \o outs[i].value]))

\* (hasIssuance ? OUTPOINT_ISSUANCE_FLAG >>> 24 : 0) | (isPegin ? OUTPOINT_PEGIN_FLAG >>> 24 : 0)
getInputFlag(input) ==
  (IF input.issuance # <<>> THEN OUTPOINT_ISSUANCE_FLAG * 64 ELSE 0)
    + (IF input.isPegin THEN OUTPOINT_PEGIN_FLAG * 64 ELSE 0)

getOutpointFlagsSHA256(ins) ==
  Sha256([i \in 1..Len(ins) |-> getInputFlag(ins[i])])

getIssuanceSize(txIn) ==
  IF txIn.issuance # <<>>
  THEN Len(txIn.issuance[1].assetBlindingNonce) + Len(txIn.issuance[1].assetEntropy)
         + Len(txIn.issuance[1].assetAmount) + Len(txIn.issuance[1].tokenAmount)
  ELSE 0

getPrevoutsSHA256(inputs) ==
  Sha256(Flatten([i \in 1..Len(inputs) |->
                    inputs[i].hash \o writeUInt32(inputs[i].index)]))

\* scripts is not empty: reduce() is given no initial value
getPrevoutScriptsSHA256(scripts) ==
  Sha256(Flatten([i \in 1..Len(scripts) |-> writeVarSlice(scripts[i])]))

getSequenceSHA256(inputs) ==
  Sha256(Flatten([i \in 1..Len(inputs) |-> writeUInt32(inputs[i].sequence)]))

IssuanceFields(issuance) ==
  issuance.assetBlindingNonce \o issuance.assetEntropy
    \o issuance.assetAmount \o issuance.tokenAmount

getIssuanceSHA256(inputs) ==
  Sha256(Flatten([i \in 1..Len(inputs) |->
                    IF inputs[i].issuance # <<>>
                    THEN IssuanceFields(inputs[i].issuance[1])
                    ELSE <<0>>]))

getOutputsSHA256(outputs) ==
  Sha256(Flatten([i \in 1..Len(outputs) |->
                    outputs[i].asset \o outputs[i].value \o outputs[i].nonce
                      \o writeVarSlice(outputs[i].script)]))

\* hashType & SIGHASH_INPUT_MASK
inputType(hashType) == ((hashType \div SIGHASH_INPUT_MASK) % 2) * SIGHASH_INPUT_MASK

outputType(hashType) ==
  IF hashType = SIGHASH_DEFAULT THEN SIGHASH_ALL
  ELSE hashType % (SIGHASH_OUTPUT_MASK + 1)

isAnyoneCanPay(hashType) == inputType(hashType) = SIGHASH_ANYONECANPAY

isNone(hashType) == outputType(hashType) = SIGHASH_NONE

isSingle(hashType) == outputType(hashType) = SIGHASH_SINGLE

\* hashOutputs and hashOutputsWitnesses: over all outputs, over the output at
\* inIndex, or left as EMPTY_BUFFER
hashOutputs(t, inIndex, hashType) ==
  IF ~(isNone(hashType) \/ isSingle(hashType))
  THEN <<getOutputsSHA256(t.outs), getOutputWitnessesSHA256(t.outs)>>
  ELSE IF isSingle(hashType) /\ inIndex < Len(t.outs)
  THEN <<getOutputsSHA256(<<t.outs[inIndex + 1]>>),
         getOutputWitnessesSHA256(<<t.outs[inIndex + 1]>>)>>
  ELSE <<Slice(EMPTY_BUFFER), Slice(EMPTY_BUFFER)>>

inputPartSize(t, inIndex, prevOutScripts, prevoutAssetsValues, hashType) ==
  IF isAnyoneCanPay(hashType)
  THEN 1 + 32 + 4
         + Len(prevoutAssetsValues[inIndex + 1].asset)
         + Len(prevoutAssetsValues[inIndex + 1].value)
         + varSliceSize(prevOutScripts[inIndex + 1])
         + 4
         + (IF t.ins[inIndex + 1].issuance # <<>>
            THEN getIssuanceSize(t.ins[inIndex + 1]) ELSE 1)
  ELSE 4

\* the capacity the message writer is made with
sigMsgSize(t, inIndex, prevOutScripts, prevoutAssetsValues, hashType, leafHash, annex) ==
  (32 * 2 + 1 + 4 + 4 + 1
     + inputPartSize(t, inIndex, prevOutScripts, prevoutAssetsValues, hashType))
    + (IF ~isAnyoneCanPay(hashType) THEN 7 * 32 ELSE 0)
    + (IF ~(isNone(hashType) \/ isSingle(hashType)) THEN 32 + 32 ELSE 0)
    + (IF annex # <<>> THEN 32 ELSE 0)
    + (IF isSingle(hashType) THEN 32 + 32 ELSE 0)
    + (IF leafHash # <<>> THEN 37 ELSE 0)

\* the slices written for the signed input when hashType has ANYONECANPAY
SigMsgInput(input, prevOutScript, prevoutAssetValue) ==
  << Slice(<<getInputFlag(input)>>),
     Slice(input.hash),
     Slice(writeUInt32(input.index)),
     Slice(prevoutAssetValue.asset),
     Slice(prevoutAssetValue.value),
     Slice(writeVarSlice(prevOutScript)),
     Slice(writeUInt32(input.sequence)) >>
  \o (IF input.issuance # <<>>
      THEN << Slice(input.issuance[1].assetBlindingNonce),
              Slice(input.issuance[1].assetEntropy),
              Slice(input.issuance[1].assetAmount),
              Slice(input.issuance[1].tokenAmount),
              Sha256(writeVarSlice(input.issuanceRangeProof)
                       \o writeVarSlice(input.inflationRangeProof)) >>
      ELSE << Slice(<<0>>) >>)

\* the slices written to the message writer, in order
SigMsg(t, inIndex, prevOutScripts, prevoutAssetsValues, hashType, genesisBlockHash, leafHash, annex) ==
  << Slice(genesisBlockHash), Slice(genesisBlockHash),
     Slice(<<hashType>>),
     Slice(writeInt32(t.version)),
     Slice(writeUInt32(t.locktime)) >>
  \o (IF ~isAnyoneCanPay(hashType)
      THEN << getOutpointFlagsSHA256(t.ins),
              getPrevoutsSHA256(t.ins),
              getSpentAssetsAmountsSHA256(prevoutAssetsValues),
              getPrevoutScriptsSHA256(prevOutScripts),
              getSequenceSHA256(t.ins),
              getIssuanceSHA256(t.ins),
              getIssuanceProofsSHA256(t.ins) >>
      ELSE << >>)
  \o (IF ~(isNone(hashType) \/ isSingle(hashType))
      THEN hashOutputs(t, inIndex, hashType) ELSE << >>)
  \o << Slice(<<(IF leafHash # <<>> THEN 2 ELSE 0) + (IF annex # <<>> THEN 1 ELSE 0)>>) >>
  \o (IF isAnyoneCanPay(hashType)
      THEN SigMsgInput(t.ins[inIndex + 1], prevOutScripts[inIndex + 1],
                       prevoutAssetsValues[inIndex + 1])
      ELSE << Slice(LE(inIndex, 4)) >>)
  \o (IF annex # <<>> THEN << Sha256(writeVarSlice(annex[1])) >> ELSE << >>)
  \o (IF isSingle(hashType) THEN hashOutputs(t, inIndex, hashType) ELSE << >>)
  \o (IF leafHash # <<>>
      THEN << Slice(leafHash[1]), Slice(<<0>>), Slice(writeUInt32(MINUS_1)) >>
      ELSE << >>)

\* hashForWitnessV1(inIndex, prevOutScripts, prevoutAssetsValues, hashType,
\* genesisBlockHash, leafHash, annex).  The one length compared with the
\* number of inputs is that of prevOutScripts.  The message writer is made
\* with the capacity sigMsgSize and holds every slice appended to it.  Reading a field of an array
\* element that is not there, and reducing an empty array without an initial
\* value, raise a TypeError.
hashForWitnessV1(t, inIndex, prevOutScripts, prevoutAssetsValues, hashType, genesisBlockHash, leafHash, annex) ==
  IF Len(prevOutScripts) # Len(t.ins)
  THEN Error("Must supply prevout script and value for all inputs")
  ELSE IF ~isAnyoneCanPay(hashType) /\ prevOutScripts = <<>>
  THEN Error("TypeError")
  ELSE IF /\ isAnyoneCanPay(hashType)
          /\ (inIndex >= Len(prevoutAssetsValues) \/ inIndex >= Len(t.ins))
  THEN Error("TypeError")
  ELSE TaggedHash("TapSighash/elements",
                  SigMsg(t, inIndex, prevOutScripts, prevoutAssetsValues, hashType,
                         genesisBlockHash, leafHash, annex))

\* ------------------------------------------------------ argument menus
HLAST == Rep(31, 0) \o <<171>>

ISSUANCE1 ==
  [assetBlindingNonce |-> Rep(32, 0),
   assetEntropy |-> Rep(32, 17),
   assetAmount |-> <<1>> \o Rep(7, 0) \o <<5>>,
   tokenAmount |-> <<0>>]

\* an issuance object whose assetEntropy is one byte short
ISSUANCE_SHORT == [ISSUANCE1 EXCEPT !.assetEntropy = Rep(31, 17)]

Arg(hash, index, sequence, scriptSig, issuance) ==
  [hash |-> hash, index |-> index, sequence |-> sequence,
   scriptSig |-> scriptSig, issuance |-> issuance]

\* calls of addInput: a coinbase-like input; a plain input with sequence 0;
\* a peg-in input; an issuance input; a peg-in input at the top index carrying
\* an issuance; the sentinel index with an issuance; the issuance bit without
\* an issuance object; the issuance bit with a malformed issuance object
InputArgs ==
  { Arg(ZERO, MINUS_1, <<>>, <<>>, <<>>),
    Arg(HLAST, Num(0), <<Num(0)>>, <<<<81>>>>, <<>>),
    Arg(HLAST, U32(OUTPOINT_PEGIN_FLAG, 2), <<Num(5)>>, <<>>, <<>>),
    Arg(HLAST, U32(OUTPOINT_ISSUANCE_FLAG, 1), <<Num(7)>>, <<>>, <<ISSUANCE1>>),
    Arg(HLAST, U32(OUTPOINT_PEGIN_FLAG, OUTPOINT_INDEX_MASK), <<>>, <<>>, <<ISSUANCE1>>),
    Arg(HLAST, MINUS_1, <<>>, <<>>, <<ISSUANCE1>>),
    Arg(HLAST, U32(OUTPOINT_ISSUANCE_FLAG, 0), <<>>, <<>>, <<>>),
    Arg(HLAST, U32(OUTPOINT_ISSUANCE_FLAG, 1), <<>>, <<>>, <<ISSUANCE_SHORT>>) }

PROOF1 == <<7, 7>>

OutputArgs ==
  { [scriptPubKey |-> <<81>>, value |-> <<1>> \o Rep(7, 0) \o <<9>>,
     asset |-> <<1>> \o Rep(32, 34), nonce |-> <<0>>,
     rangeProof |-> <<>>, surjectionProof |-> <<>>],
    [scriptPubKey |-> <<>>, value |-> <<8>> \o Rep(32, 51),
     asset |-> <<10>> \o Rep(32, 68), nonce |-> <<2>> \o Rep(32, 85),
     rangeProof |-> <<PROOF1>>, surjectionProof |-> <<PROOF1>>] }

WITNESS1 == << <<1, 2, 3>> >>

\* the positions the setters are called with
SetterIndexes == {0}

\* ------------------------------------------------------------- state
\* res is the outcome of the last call: op its name, threw whether it threw,
\* the other fields as each action sets them.
Res(op) ==
  [op |-> op, threw |-> FALSE, num |-> 0, bytes |-> <<>>, kind |-> "",
   arg |-> <<>>, pre |-> <<>>, fresh |-> FALSE]

BuildOps == {"new", "addInput", "addOutput", "setWitness", "setPeginWitness",
             "setOutputRangeProof", "setOutputSurjectionProof"}

\* the caller builds the transaction first and queries it afterwards
Building == res.op \in BuildOps

Init ==
  /\ tx = NewTransaction
  /\ buf = <<>>
  /\ res = Res("new")

AddInput(max) ==
  /\ Building
  /\ Len(tx.ins) < max
  /\ \E a \in InputArgs :
       LET r == addInput(tx, a.hash, a.index, a.sequence, a.scriptSig, a.issuance) IN
       /\ tx' = r.tx
       /\ res' = [Res("addInput") EXCEPT !.threw = r.threw, !.num = r.ret,
                                         !.arg = <<a>>, !.pre = <<tx>>]
  /\ UNCHANGED buf

AddOutput(max) ==
  /\ Building
  /\ Len(tx.outs) < max
  /\ \E a \in OutputArgs :
       LET r == addOutput(tx, a.scriptPubKey, a.value, a.asset, a.nonce,
                          a.rangeProof, a.surjectionProof) IN
       /\ tx' = r.tx
       /\ res' = [Res("addOutput") EXCEPT !.num = r.ret]
  /\ UNCHANGED buf

SetWitness ==
  /\ Building
  /\ \E index \in SetterIndexes :
       /\ index < Len(tx.ins)
       /\ tx' = [tx EXCEPT !.ins[index + 1].witness = WITNESS1]
       /\ res' = [Res("setWitness") EXCEPT !.num = index]
  /\ UNCHANGED buf

SetPeginWitness ==
  /\ Building
  /\ \E index \in SetterIndexes :
       /\ index < Len(tx.ins)
       /\ tx' = [tx EXCEPT !.ins[index + 1].peginWitness = WITNESS1]
       /\ res' = [Res("setPeginWitness") EXCEPT !.num = index]
  /\ UNCHANGED buf

SetOutputRangeProof ==
  /\ Building
  /\ \E index \in SetterIndexes :
       /\ index < Len(tx.outs)
       /\ tx' = [tx EXCEPT !.outs[index + 1].rangeProof = PROOF1]
       /\ res' = [Res("setOutputRangeProof") EXCEPT !.num = index]
  /\ UNCHANGED buf

SetOutputSurjectionProof ==
  /\ Building
  /\ \E index \in SetterIndexes :
       /\ index < Len(tx.outs)
       /\ tx' = [tx EXCEPT !.outs[index + 1].surjectionProof = PROOF1]
       /\ res' = [Res("setOutputSurjectionProof") EXCEPT !.num = index]
  /\ UNCHANGED buf

\* the transaction in hand was just built or parsed; the calls below leave it
\* as it is, so calling them again after one another shows nothing new
Ready == res.op \in BuildOps \cup {"fromBuffer"}

\* toBuffer(): buf becomes the returned buffer; res.pre keeps the buffer held
\* before, res.fresh says tx is what a strict fromBuffer just made of it
ToBuffer ==
  /\ Ready
  /\ \E r \in toBuffer(tx) :
       /\ buf' = r.bytes
       /\ res' = [Res("toBuffer") EXCEPT
                    !.threw = r.threw, !.pre = <<buf>>,
                    !.fresh = (res.op = "fromBuffer" /\ ~res.threw
                               /\ res.kind = "strict")]
  /\ UNCHANGED tx

\* buffers handed to fromBuffer: the serialization in hand, and the same with
\* another flag byte, a trailing byte, or a three-byte input count
WithFlagByte(b, f) == [b EXCEPT ![5] = f]
WithLongCount(b) == SubSeq(b, 1, 5) \o <<253, b[6], 0>> \o SubSeq(b, 7, Len(b))
Corpus(b) ==
  {b, b \o <<0>>, WithLongCount(b)} \cup {WithFlagByte(b, f) : f \in 0..3}
Exact(b) == {b}
Buffers(tampered, b) == IF tampered THEN Corpus(b) ELSE Exact(b)

\* Transaction.fromBuffer(b, noStrict): tx becomes the transaction returned
\* (it stays the one in hand when the call throws); res.pre keeps the
\* transaction held before, res.fresh says b is its serialization, untouched.
\* The serialization of a transaction that was itself parsed is only parsed
\* back as it is, strictly.
FromBuffer(tampered, modes) ==
  /\ res.op = "toBuffer" /\ ~res.threw
  /\ \E b \in Buffers(tampered, buf), noStrict \in modes :
       /\ res.pre[1] # <<>> => (b = buf /\ ~noStrict)
       /\ \E r \in {fromBuffer(b, noStrict)} :
            /\ tx' = IF r.threw THEN tx ELSE r.tx
            /\ res' = [Res("fromBuffer") EXCEPT
                         !.threw = r.threw, !.pre = <<tx>>, !.fresh = (b = buf),
                         !.kind = IF noStrict THEN "nostrict" ELSE "strict"]
       /\ buf' = b

\* buffer.toString('hex'), each digit given by its value
HexEncode(b) ==
  [i \in 1..(2 * Len(b)) |->
     IF i % 2 = 1 THEN b[(i + 1) \div 2] \div 16 ELSE b[i \div 2] % 16]

\* Transaction.fromHex(hex), for the hex strings of the same buffers
FromHex(tampered) ==
  /\ res.op = "toBuffer" /\ ~res.threw
  /\ \E b \in Buffers(tampered, buf) :
       /\ res.pre[1] # <<>> => b = buf
       /\ \E r \in {fromHex(HexEncode(b))} :
            /\ tx' = IF r.threw THEN tx ELSE r.tx
            /\ res' = [Res("fromHex") EXCEPT
                         !.threw = r.threw, !.pre = <<tx>>, !.fresh = (b = buf),
                         !.arg = <<HexEncode(b)>>]
       /\ buf' = b

ByteLength ==
  /\ Ready
  /\ \E allowWitness \in {<<>>, <<TRUE>>, <<FALSE>>} :
       LET r == byteLength(tx, allowWitness) IN
       res' = [Res("byteLength") EXCEPT
                 !.threw = r.threw, !.num = r.size, !.arg = allowWitness]
  /\ UNCHANGED <<tx, buf>>

Clone ==
  /\ Ready
  /\ res' = [Res("clone") EXCEPT !.arg = <<clone(tx)>>]
  /\ UNCHANGED <<tx, buf>>

GetHash ==
  /\ Ready
  /\ \E forWitness \in {<<>>, <<TRUE>>, <<FALSE>>} :
       \E r \in getHash(tx, forWitness) :
         res' = [Res("getHash") EXCEPT
                   !.threw = r.threw, !.kind = r.kind, !.bytes = r.bytes,
                   !.arg = forWitness]
  /\ UNCHANGED <<tx, buf>>

HashTypes == {0, 1, 2, 3, 129, 130, 131}
PrevOutScripts == {<<171, 81, 171>>}

HashForSignature ==
  /\ Ready
  /\ \E inIndex \in 0..MaxSigIns, prevOutScript \in PrevOutScripts,
        hashType \in HashTypes :
       /\ \E r \in hashForSignature(tx, inIndex, prevOutScript, hashType) :
            res' = [Res("hashForSignature") EXCEPT
                      !.threw = r.threw, !.kind = r.kind, !.bytes = r.bytes,
                      !.num = inIndex,
                      !.arg = <<[prevOutScript |-> prevOutScript,
                                 hashType |-> hashType]>>,
                      !.pre = <<tx>>]
       /\ tx' = ThisAfterSignature(tx, inIndex, prevOutScript, hashType)
  /\ UNCHANGED buf

GENESIS_BLOCK_HASH == Rep(32, 9)
LEAF_HASH == Rep(32, 3)
ANNEX == <<80, 1>>
PREVOUT1 == [asset |-> <<1>> \o Rep(32, 34), value |-> <<1>> \o Rep(7, 0) \o <<9>>]

\* an array of n copies of x
ArrayOf(n, x) == [i \in 1..n |-> x]

\* the lengths the companion arrays are given for a transaction of n inputs
CompanionLengths(n) == {m \in {n - 1, n, n + 1} : m >= 0}

\* leafHash and annex are given along with well-sized companion arrays
HashForWitnessV1 ==
  /\ Ready
  /\ \E inIndex \in 0..MaxV1Ins, hashType \in HashTypes,
        nScripts \in CompanionLengths(Len(tx.ins)),
        nAssetsValues \in CompanionLengths(Len(tx.ins)),
        leafHash \in {<<>>, <<LEAF_HASH>>}, annex \in {<<>>, <<ANNEX>>} :
       /\ (leafHash # <<>> \/ annex # <<>>)
            => (nScripts = Len(tx.ins) /\ nAssetsValues = Len(tx.ins))
       /\ \E r \in {hashForWitnessV1(tx, inIndex, ArrayOf(nScripts, <<81>>),
                                     ArrayOf(nAssetsValues, PREVOUT1), hashType,
                                     GENESIS_BLOCK_HASH, leafHash, annex)} :
            res' = [Res("hashForWitnessV1") EXCEPT
                      !.threw = r.threw, !.kind = r.kind, !.bytes = r.bytes,
                      !.num = inIndex,
                      !.arg = <<[prevOutScripts |-> ArrayOf(nScripts, <<81>>),
                                 prevoutAssetsValues |-> ArrayOf(nAssetsValues, PREVOUT1),
                                 hashType |-> hashType,
                                 leafHash |-> leafHash, annex |-> annex]>>,
                      !.pre = <<tx>>]
  /\ UNCHANGED <<tx, buf>>

\* building, serializing and parsing
Next ==
  \/ AddInput(MaxIns)
  \/ AddOutput(MaxOuts)
  \/ SetWitness
  \/ SetPeginWitness
  \/ SetOutputRangeProof
  \/ SetOutputSurjectionProof
  \/ ToBuffer
  \/ FromBuffer(TRUE, BOOLEAN)
  \/ FromHex(TRUE)

Spec == Init /\ [][Next]_vars

\* building and parsing, then sizes, copies and identifiers
QueryNext ==
  \/ AddInput(MaxQueryIns)
  \/ AddOutput(MaxOuts)
  \/ SetWitness
  \/ SetPeginWitness
  \/ SetOutputRangeProof
  \/ SetOutputSurjectionProof
  \/ ToBuffer
  \/ FromBuffer(FALSE, {FALSE})
  \/ ByteLength
  \/ Clone
  \/ GetHash

SpecQuery == Init /\ [][QueryNext]_vars

\* building, then the legacy signature hash
SigNext ==
  \/ AddInput(MaxSigIns)
  \/ AddOutput(MaxSigOuts)
  \/ SetWitness
  \/ HashForSignature

SpecSig == Init /\ [][SigNext]_vars

\* building, then the taproot and the legacy signature hash
V1Next ==
  \/ AddInput(MaxV1Ins)
  \/ AddOutput(MaxV1Outs)
  \/ HashForWitnessV1
  \/ HashForSignature

SpecV1 == Init /\ [][V1Next]_vars

\* ================================================================ claims
\* what the claims say about a transaction, written out field by field
SomeWitnessData(t) ==
  \/ \E i \in 1..Len(t.ins) :
       \/ t.ins[i].witness # <<>>
       \/ t.ins[i].peginWitness # <<>>
       \/ t.ins[i].issuanceRangeProof # <<>>
       \/ t.ins[i].inflationRangeProof # <<>>
  \/ \E i \in 1..Len(t.outs) :
       \/ t.outs[i].rangeProof # <<>>
       \/ t.outs[i].surjectionProof # <<>>

\* has_witnesses() as the specification words it
SpecHasWitnesses(t) ==
  \/ t.flag = 1
  \/ \E i \in 1..Len(t.ins) : t.ins[i].witness # <<>>
  \/ \E i \in 1..Len(t.outs) :
       t.outs[i].rangeProof # <<>> /\ t.outs[i].surjectionProof # <<>>

HasIssuance(txIn) == txIn.issuance # <<>>

\* the input's index and flag bits have a wire form of their own: a logical
\* index below 2^30 that does not, with both bits set, coincide with the
\* sentinel; or the sentinel with neither an issuance nor the peg-in mark
OutpointUnambiguous(txIn) ==
  IF txIn.index = MINUS_1
  THEN ~HasIssuance(txIn) /\ ~txIn.isPegin
  ELSE /\ txIn.index.hi = 0
       /\ ~(txIn.index.lo = OUTPOINT_INDEX_MASK /\ HasIssuance(txIn) /\ txIn.isPegin)

\* a confidential value has the length its first byte announces
ValueWellFormed(v) ==
  Len(v) = (IF v[1] = 1 THEN 9 ELSE IF v[1] = 0 THEN 1 ELSE 33)

NonceWellFormed(n) == Len(n) = (IF n[1] = 0 THEN 1 ELSE 33)

\* every field has the length the reader will take it to have
FieldsWellFormed(t) ==
  /\ \A i \in 1..Len(t.ins) :
       /\ Len(t.ins[i].hash) = 32
       /\ HasIssuance(t.ins[i]) =>
            /\ Len(t.ins[i].issuance[1].assetBlindingNonce) = 32
            /\ Len(t.ins[i].issuance[1].assetEntropy) = 32
            /\ ValueWellFormed(t.ins[i].issuance[1].assetAmount)
            /\ ValueWellFormed(t.ins[i].issuance[1].tokenAmount)
  /\ \A i \in 1..Len(t.outs) :
       /\ Len(t.outs[i].asset) = 33
       /\ ValueWellFormed(t.outs[i].value)
       /\ NonceWellFormed(t.outs[i].nonce)

\* the flag says what the wire will say, and nothing is left off the wire
WireFaithful(t) ==
  /\ t.flag = 1 \/ (t.flag = 0 /\ ~SomeWitnessData(t))
  /\ \A i \in 1..Len(t.ins) : OutpointUnambiguous(t.ins[i])
  /\ FieldsWellFormed(t)

\* a fromBuffer of the untouched serialization of the transaction res.pre[1]
ParsedBack == res.op = "fromBuffer" /\ res.fresh

\* C1 as stated: for every transaction t, with any flag and any combination of
\* witness and proof fields, fromBuffer(t.toBuffer()) equals t in every field.
C1_RoundTripOfEveryTransaction ==
  ParsedBack => (~res.threw /\ tx = res.pre[1])

\* C1 amended: fromBuffer(t.toBuffer()) equals t in every field for every
\* transaction t whose flag is 1, or whose flag is 0 and whose witness,
\* peginWitness, issuance proofs and output proofs are all empty, whose
\* inputs each have an unambiguous outpoint, and whose confidential fields
\* have the lengths their first bytes announce.
C1_RoundTrip ==
  (ParsedBack /\ WireFaithful(res.pre[1])) => (~res.threw /\ tx = res.pre[1])

C1_Witness ==
  /\ ParsedBack /\ WireFaithful(res.pre[1]) /\ tx = res.pre[1]
  /\ Len(tx.ins) >= 1 /\ Len(tx.outs) >= 1
  /\ tx.ins[1].witness # <<>> /\ tx.ins[1].peginWitness # <<>>
  /\ \E i \in 1..Len(tx.ins) : HasIssuance(tx.ins[i]) \/ tx.ins[i].isPegin
  /\ tx.outs[1].rangeProof # <<>>

\* a toBuffer of the transaction a strict fromBuffer just returned for the
\* buffer res.pre[1]
Reserialized == res.op = "toBuffer" /\ res.fresh

\* whether the input count and the output count of b are in their shortest form
CountsMinimal(b) ==
  LET vinLen == readVarInt(b, 5)
      ins == ReadLoop(1, b, vinLen.off, vinLen.val)
      voutLen == readVarInt(b, ins.off)
  IN /\ vinLen.off - 5 = encodingLength(vinLen.val)
     /\ voutLen.off - ins.off = encodingLength(voutLen.val)

\* C2 as stated: for every buffer b that fromBuffer accepts in strict mode,
\* fromBuffer(b).toBuffer() equals b byte for byte.
C2_ByteExactForEveryAcceptedBuffer ==
  Reserialized => (~res.threw /\ buf = res.pre[1])

\* C2 amended: fromBuffer(b).toBuffer() equals b byte for byte for every buffer
\* b accepted in strict mode whose flag byte is 0 or 1 and whose compact-size
\* integers are in their shortest form.
C2_ByteExact ==
  (Reserialized /\ res.pre[1][5] \in {0, 1} /\ CountsMinimal(res.pre[1]))
    => (~res.threw /\ buf = res.pre[1])

C2_Witness ==
  /\ Reserialized /\ buf = res.pre[1]
  /\ buf[5] = 1
  /\ Len(tx.ins) >= 1 /\ Len(tx.outs) >= 1
  /\ tx.ins[1].witness # <<>> /\ HasIssuance(tx.ins[1])

\* the transaction tx has just been serialized into buf
Serialized == res.op = "toBuffer" /\ ~res.threw

\* offset in the serialization of t at which input k (from 1) starts
InOffset(t, k) ==
  5 + encodingLength(Len(t.ins))
    + SumSeq([j \in 1..(k - 1) |-> Len(WriteTxIn(t.ins[j]))])

\* index | (issuance ? 0x80000000 : 0) | (isPegin ? 0x40000000 : 0), for an
\* index below 2^30
ClaimedWireIndex(txIn) ==
  U32((IF HasIssuance(txIn) THEN 2 ELSE 0) + (IF txIn.isPegin THEN 1 ELSE 0),
      txIn.index.lo)

SameOutpoint(a, b) ==
  /\ a.index = b.index
  /\ a.isPegin = b.isPegin
  /\ HasIssuance(a) = HasIssuance(b)

ReadsAsSentinel(r) == r.index = MINUS_1 /\ ~r.isPegin /\ ~HasIssuance(r)

\* C4 as stated: every input with a logical index below 2^30, with any
\* combination of issuance and isPegin, is written with the index or-ed with
\* the two flag bits and reads back with the same index, isPegin and issuance
\* presence; an input at the sentinel index is written as 0xFFFFFFFF and reads
\* back as 0xFFFFFFFF with isPegin false and no issuance.
C4_OutpointRoundTripBelowTwoPow30 ==
  Serialized =>
    \A k \in 1..Len(tx.ins) :
      LET txIn == tx.ins[k]
          off == InOffset(tx, k)
          r == ReadTxIn(buf, off).val
      IN IF txIn.index = MINUS_1
         THEN readUInt32(buf, off + 32) = MINUS_1 /\ ReadsAsSentinel(r)
         ELSE /\ readUInt32(buf, off + 32) = ClaimedWireIndex(txIn)
              /\ SameOutpoint(r, txIn)

\* C4 amended: as stated, except that the input with logical index 0x3FFFFFFF,
\* an issuance and isPegin is written as 0xFFFFFFFF and so reads back as the
\* sentinel, with isPegin false and no issuance.
C4_OutpointRoundTrip ==
  Serialized =>
    \A k \in 1..Len(tx.ins) :
      LET txIn == tx.ins[k]
          off == InOffset(tx, k)
          r == ReadTxIn(buf, off).val
      IN IF txIn.index = MINUS_1
         THEN readUInt32(buf, off + 32) = MINUS_1 /\ ReadsAsSentinel(r)
         ELSE /\ readUInt32(buf, off + 32) = ClaimedWireIndex(txIn)
              /\ IF txIn.index.lo = OUTPOINT_INDEX_MASK /\ HasIssuance(txIn)
                    /\ txIn.isPegin
                 THEN ReadsAsSentinel(r)
                 ELSE SameOutpoint(r, txIn)

C4_Witness ==
  /\ Serialized
  /\ \E k \in 1..Len(tx.ins) :
       /\ HasIssuance(tx.ins[k]) /\ ~tx.ins[k].isPegin
       /\ tx.ins[k].index = Num(1)
       /\ readUInt32(buf, InOffset(tx, k) + 32) = U32(OUTPOINT_ISSUANCE_FLAG, 1)
       /\ HasIssuance(ReadTxIn(buf, InOffset(tx, k)).val)

\* length of the serialization of t up to and including the locktime
BodyLength(t) ==
  5 + encodingLength(Len(t.ins))
    + SumSeq([i \in 1..Len(t.ins) |-> Len(WriteTxIn(t.ins[i]))])
    + encodingLength(Len(t.outs))
    + SumSeq([i \in 1..Len(t.outs) |-> Len(WriteTxOut(t.outs[i], FALSE))])
    + 4

\* one confidential-in-fields group per input, then one confidential-out-fields
\* group per output
Suffix(t) ==
  Flatten([i \in 1..Len(t.ins) |-> writeConfidentialInFields(t.ins[i])])
    \o Flatten([i \in 1..Len(t.outs) |-> writeConfidentialOutFields(t.outs[i])])

\* C9: in the bytes toBuffer() produces the flag byte is 1 iff the suffix of
\* confidential groups is appended, and both happen exactly when flag = 1 or
\* some input has a non-empty witness or some output has both proofs non-empty.
C9_FlagByteIffSuffix ==
  Serialized =>
    /\ buf[5] = (IF SpecHasWitnesses(tx) THEN 1 ELSE 0)
    /\ SubSeq(buf, 1, BodyLength(tx))
         = [Written(tx, FALSE, FALSE, FALSE) EXCEPT ![5] = buf[5]]
    /\ SubSeq(buf, BodyLength(tx) + 1, Len(buf))
         = (IF SpecHasWitnesses(tx) THEN Suffix(tx) ELSE <<>>)

C9_Witness ==
  /\ Serialized
  /\ tx.flag = 0
  /\ \A i \in 1..Len(tx.ins) : tx.ins[i].witness = <<>>
  /\ \E i \in 1..Len(tx.outs) :
       tx.outs[i].rangeProof # <<>> /\ tx.outs[i].surjectionProof # <<>>
  /\ buf[5] = 1
  /\ Len(buf) > BodyLength(tx)

\* ------------------------------------------------------ queries
\* the allow_witness a call of byteLength asks for (true when left out)
AskedAllowWitness == IF res.arg = <<>> THEN TRUE ELSE res.arg[1]

\* C3: for both values of allow_witness, byteLength(allow_witness) is the number
\* of bytes the serialization with the same allow_witness produces.
C3_ByteLengthIsSerializedLength ==
  res.op = "byteLength" =>
    \A b \in __toBuffer(tx, AskedAllowWitness, FALSE, FALSE) :
      ~res.threw /\ ~b.threw /\ res.num = Len(b.bytes)

\* the all-zero hash, byte by byte
AllZero32(hash) == Len(hash) = 32 /\ \A i \in 1..32 : hash[i] = 0

\* a getHash(true) has just returned
GotWtxid == res.op = "getHash" /\ res.arg = <<TRUE>>

\* C6: getHash(true) of a transaction with exactly one input whose hash is 32
\* zero bytes is 32 zero bytes, whatever its other fields; with two or more
\* inputs, or a non-zero byte in the single input's hash, it is a hash256.
C6_CoinbaseWtxid ==
  GotWtxid =>
    IF Len(tx.ins) = 1 /\ AllZero32(tx.ins[1].hash)
    THEN ~res.threw /\ res.kind = "const" /\ res.bytes = Rep(32, 0)
    ELSE ~res.threw /\ res.kind = "hash256"

C6_Witness ==
  /\ GotWtxid
  /\ Len(tx.ins) = 1 /\ AllZero32(tx.ins[1].hash)
  /\ tx.ins[1].witness # <<>>
  /\ tx.flag = 1
  /\ Len(tx.outs) = 1
  /\ res.kind = "const" /\ res.bytes = Rep(32, 0)

\* C7: for a transaction that is not a coinbase, getHash(true) hashes exactly
\* the bytes toBuffer() returns.
C7_WtxidPreimageIsToBuffer ==
  (GotWtxid /\ ~(Len(tx.ins) = 1 /\ AllZero32(tx.ins[1].hash))) =>
    /\ res.kind = "hash256"
    /\ \A b \in toBuffer(tx) : ~b.threw /\ res.bytes = b.bytes

\* C8: for every allow_witness, the serialization with force_zero_flag = true
\* (the one getHash hashes) has flag byte 0 and no suffix.
C8_ForceZeroFlagOmitsSuffix ==
  (res.op = "getHash" /\ res.kind = "hash256") =>
    /\ res.bytes[5] = 0
    /\ Len(res.bytes) = BodyLength(tx)

\* C10: for both values w of allow_witness, serializing t.clone() with w yields
\* the same bytes as serializing t with w.
C10_CloneSerializesAlike ==
  res.op = "clone" =>
    \A w \in BOOLEAN :
      __toBuffer(res.arg[1], w, FALSE, FALSE) = __toBuffer(tx, w, FALSE, FALSE)

C10_Witness ==
  /\ res.op = "clone"
  /\ Len(tx.ins) >= 1 /\ Len(tx.outs) >= 1
  /\ HasIssuance(tx.ins[1])
  /\ tx.ins[1].witness # <<>> /\ tx.ins[1].peginWitness # <<>>
  /\ tx.outs[1].rangeProof # <<>>
  /\ \A w \in BOOLEAN : \A b \in __toBuffer(res.arg[1], w, FALSE, FALSE) : ~b.threw
  /\ __toBuffer(res.arg[1], TRUE, FALSE, FALSE) # __toBuffer(tx, FALSE, FALSE, FALSE)

\* ------------------------------------------------------ legacy sighash
\* C5: hashForSignature returns ONE when inIndex >= number of inputs, and when
\* the mode is SIGHASH_SINGLE and inIndex >= number of outputs; in every other
\* case it returns the hash256 of a serialized preimage.
C5_SentinelOrHash ==
  res.op = "hashForSignature" =>
    LET inIndex == res.num
        hashType == res.arg[1].hashType
    IN IF \/ inIndex >= Len(tx.ins)
          \/ (hashType % 32 = 3 /\ inIndex >= Len(tx.outs))
       THEN ~res.threw /\ res.kind = "const" /\ res.bytes = ONE
       ELSE ~res.threw /\ res.kind = "hash256"

\* C11: hashForWitnessV1 fails with its length error, before any preimage is
\* built, whenever prevOutScripts or prevoutAssetsValues has a length other
\* than the number of inputs.
C11_BothCompanionLengthsChecked ==
  res.op = "hashForWitnessV1" =>
    ( ( \/ Len(res.arg[1].prevOutScripts) # Len(tx.ins)
        \/ Len(res.arg[1].prevoutAssetsValues) # Len(tx.ins) )
      => ( /\ res.threw
           /\ res.kind = "Must supply prevout script and value for all inputs" ) )

\* the last call was addInput with the issuance bit set on an index other
\* than 0xFFFFFFFF
AddedWithIssuanceBit ==
  /\ res.op = "addInput"
  /\ res.arg[1].index # MINUS_1
  /\ res.arg[1].index.hi \in {2, 3}

\* exactly one input was appended and its position returned
AppendedOne ==
  /\ ~res.threw
  /\ Len(tx.ins) = Len(res.pre[1].ins) + 1
  /\ SubSeq(tx.ins, 1, Len(res.pre[1].ins)) = res.pre[1].ins
  /\ res.num = Len(res.pre[1].ins)
  /\ tx = [res.pre[1] EXCEPT !.ins = tx.ins]

\* the call failed and the transaction is as it was
FailedUnchanged == res.threw /\ tx = res.pre[1]

\* the fields of an issuance object have the widths of the data model
IssuanceWellFormed(iss) ==
  /\ Len(iss.assetBlindingNonce) = 32
  /\ Len(iss.assetEntropy) = 32
  /\ Len(iss.assetAmount) \in {1, 9, 33}
  /\ Len(iss.tokenAmount) \in {1, 9, 33}

\* C12 as stated: the issuance bit without an issuance object fails and appends
\* nothing; with any issuance object supplied one input is appended and its
\* position returned.
C12_AnyIssuanceObjectAppends ==
  AddedWithIssuanceBit =>
    IF res.arg[1].issuance = <<>> THEN FailedUnchanged ELSE AppendedOne

\* C12, amended: the issuance bit without an issuance object fails and appends
\* nothing; with a well-formed issuance object one input is appended and its
\* position returned; a malformed issuance object fails and appends nothing.
C12_IssuanceBitNeedsIssuance ==
  AddedWithIssuanceBit =>
    IF res.arg[1].issuance = <<>> THEN FailedUnchanged
    ELSE IF IssuanceWellFormed(res.arg[1].issuance[1]) THEN AppendedOne
    ELSE FailedUnchanged

\* the issuance bit without an issuance object, on a transaction that already
\* has an input
C12_Witness ==
  /\ AddedWithIssuanceBit
  /\ res.arg[1].issuance = <<>>
  /\ res.threw
  /\ Len(tx.ins) = 1

\* the reader's offset once the body of b, and its suffix when bit 0 of the
\* flag byte is set, have been read
EndAfterInW(b, outs, inW) == ReadSuffix(4, b, inW.off, Len(outs.val)).off

EndAfterOuts(b, ins, outs) ==
  EndAfterInW(b, outs, ReadSuffix(3, b, outs.off + 4, Len(ins.val)))

EndAfterIns(b, ins) == EndAfterOuts(b, ins, ReadOuts(b, ins.off))

EndOffset(b) == EndAfterIns(b, ReadIns(b))

\* the last call parsed buf strictly: fromBuffer without the non-strict flag, or
\* fromHex
ParsedStrictly ==
  \/ res.op = "fromBuffer" /\ res.kind = "strict"
  \/ res.op = "fromHex"

ParsedLeniently == res.op = "fromBuffer" /\ res.kind = "nostrict"

\* C13: a strict parse (fromBuffer without the non-strict flag, and fromHex)
\* fails whenever the reader's offset after the body and the suffix is not the
\* length of the buffer; a non-strict parse of a buffer with trailing bytes
\* returns the transaction read from the bytes before them.
C13_StrictParsing ==
  /\ (ParsedStrictly /\ EndOffset(buf) # Len(buf)) => res.threw
  /\ (ParsedStrictly /\ EndOffset(buf) = Len(buf)) => ~res.threw
  /\ (ParsedLeniently /\ EndOffset(buf) < Len(buf)) =>
       /\ ~res.threw
       /\ tx = fromBuffer(SubSeq(buf, 1, EndOffset(buf)), FALSE).tx
       /\ ~fromBuffer(SubSeq(buf, 1, EndOffset(buf)), FALSE).threw

\* a strict parse of a buffer with a suffix and a trailing byte
C13_Witness ==
  /\ res.op = "fromBuffer" /\ res.kind = "strict"
  /\ res.threw
  /\ EndOffset(buf) < Len(buf)
  /\ buf[5] = 1
  /\ Len(tx.ins) = 1 /\ Len(tx.outs) = 1

\* the blank output of the claim: 32 zero bytes of asset, eight 0xff bytes of
\* value, 32 zero bytes of nonce, an empty script
BlankOutputWithValue ==
  [script |-> EMPTY_BUFFER, asset |-> ZERO, nonce |-> ZERO,
   value |-> VALUE_UINT64_MAX,
   rangeProof |-> EMPTY_BUFFER, surjectionProof |-> EMPTY_BUFFER]

\* the copy signed under SIGHASH_SINGLE as the claim describes it: inIndex + 1
\* outputs, blank before inIndex, the original at inIndex
SingleBlanked(t, inIndex, prevOutScript, hashType) ==
  [SignatureTx(t, inIndex, prevOutScript, hashType) EXCEPT
     !.outs = [i \in 1..(inIndex + 1) |->
                 IF i <= inIndex THEN BlankOutputWithValue ELSE t.outs[i]]]

SignedSingleInRange ==
  /\ res.op = "hashForSignature"
  /\ res.arg[1].hashType % 32 = SIGHASH_SINGLE
  /\ 1 <= res.num
  /\ res.num < Len(tx.ins)
  /\ res.num < Len(tx.outs)

\* C14: hashForSignature with SIGHASH_SINGLE and 1 <= inIndex < min(ins, outs)
\* returns the hash256 of a preimage with inIndex + 1 outputs, blank before
\* inIndex and the original at inIndex, every other input with sequence 0.
C14_SingleBlanksEarlierOutputs ==
  SignedSingleInRange =>
    /\ ~res.threw
    /\ res.kind = "hash256"
    /\ res.bytes =
         Written(SingleBlanked(tx, res.num, res.arg[1].prevOutScript,
                               res.arg[1].hashType), FALSE, TRUE, TRUE)
           \o writeInt32(res.arg[1].hashType)

\* the preimage of the claim for a transaction with witnesses: no flag byte,
\* every output as asset, one 0x00 byte for the value, nonce, eight zero bytes,
\* script; then the hashType
ZeroValuePreimage(t, hashType) ==
  writeInt32(t.version)
    \o writeVarInt(Len(t.ins))
    \o Flatten([i \in 1..Len(t.ins) |-> WriteTxIn(t.ins[i])])
    \o writeVarInt(Len(t.outs))
    \o Flatten([i \in 1..Len(t.outs) |->
                  t.outs[i].asset \o <<0>> \o t.outs[i].nonce \o Rep(8, 0)
                    \o writeVarSlice(t.outs[i].script)])
    \o writeUInt32(t.locktime)
    \o writeInt32(hashType)

\* C15: hashForSignature on a transaction whose hasWitnesses() is true hashes a
\* preimage without flag byte in which every output has its value replaced by
\* one 0x00 byte and eight zero bytes after its nonce.
C15_WitnessesZeroTheValues ==
  ( /\ res.op = "hashForSignature"
    /\ hasWitnesses(tx)
    /\ ~res.threw
    /\ res.kind = "hash256" )
  => res.bytes = ZeroValuePreimage(SignatureTx(tx, res.num, res.arg[1].prevOutScript,
                                               res.arg[1].hashType),
                                   res.arg[1].hashType)

\* C17: when hashForSignature has returned, a digest or ONE, the transaction is
\* in every field what it was before the call.
C17_SignatureLeavesTransaction ==
  (res.op = "hashForSignature" /\ ~res.threw) => tx = res.pre[1]

\* a digest under SIGHASH_NONE for the first of two inputs: the copy's second
\* input has sequence 0 and an empty script, the copy has no outputs
C17_Witness ==
  /\ res.op = "hashForSignature" /\ ~res.threw
  /\ res.kind = "hash256"
  /\ res.arg[1].hashType = SIGHASH_NONE
  /\ res.num = 0
  /\ Len(tx.ins) = 2 /\ Len(tx.outs) >= 1
  /\ tx.ins[2].sequence # Num(0)
  /\ tx.ins[2].script # EMPTY_BUFFER

\* C18: the input addInput appends has the caller's sequence, 0 included, and
\* DEFAULT_SEQUENCE only when the sequence argument is omitted.
C18_SequenceStoredAsGiven ==
  (res.op = "addInput" /\ ~res.threw) =>
    tx.ins[Len(tx.ins)].sequence =
      IF res.arg[1].sequence = <<>> THEN DEFAULT_SEQUENCE
      ELSE res.arg[1].sequence[1]

\* hashForWitnessV1 got as far as its message writer, for an input of the
\* transaction
WroteSigMsg ==
  /\ res.op = "hashForWitnessV1"
  /\ ~res.threw
  /\ res.num < Len(tx.ins)

\* hashForSignature sized its buffer and wrote the copy into it
WroteSignatureBuffer ==
  /\ res.op = "hashForSignature"
  /\ ~res.threw
  /\ res.kind = "hash256"

\* C16: the capacity hashForWitnessV1 computes, sigMsgSize, is the number of
\* bytes it then writes, for every hashType, inIndex below the number of inputs,
\* with or without issuance, leafHash and annex; and the buffer of
\* hashForSignature, __byteLength(false, true) + 4, is the number of bytes of
\* the for-signature serialization plus the four of hashType.
C16_SizesAreBytesWritten ==
  /\ WroteSigMsg =>
       sigMsgSize(tx, res.num, res.arg[1].prevOutScripts,
                  res.arg[1].prevoutAssetsValues, res.arg[1].hashType,
                  res.arg[1].leafHash, res.arg[1].annex)
         = WrittenLength(res.bytes)
  /\ WroteSignatureBuffer =>
       __byteLength(SignatureTx(tx, res.num, res.arg[1].prevOutScript,
                                res.arg[1].hashType), FALSE, TRUE).size + 4
         = Len(Written(SignatureTx(tx, res.num, res.arg[1].prevOutScript,
                                   res.arg[1].hashType), FALSE, TRUE, TRUE)) + 4

====
